---------------------------- MODULE Spec2Model ----------------------------
(***************************************************************************)
(* A model of the nom-based JSON parser of Rust/src/main.rs.               *)
(*                                                                         *)
(* A text is a sequence of one-character strings.  A parser returns an     *)
(* IResult: a record whose field k is "Ok" (with the remainder rest and    *)
(* the output val), "Err" (nom's recoverable Err::Error, with the input    *)
(* and the ErrorKind of nom::error::Error), "Panic" (an unwinding panic!   *)
(* or unwrap) or "Overflow" (the call stack is exhausted).                 *)
(*                                                                         *)
(* The parsers that do not recurse (parse_null, parse_bool, parse_num,     *)
(* parse_str and the separators) are operators built from the nom          *)
(* combinators.  The recursive ones (parse_value, parse_array, parse_pair, *)
(* parse_object, and parse_json which calls them) run on an explicit call  *)
(* stack: one frame per active call, one action per function, one step     *)
(* from a call or a return to the next.                                    *)
(*                                                                         *)
(* input is the text handed to the parser, op the parser main called,      *)
(* stack the call stack, ret the value the last call returned (the result  *)
(* main prints once the stack is empty), and prev the value of an earlier  *)
(* parse of the same document before whitespace was added to it.           *)
(***************************************************************************)
EXTENDS Integers, Sequences, FiniteSets, TLC

VARIABLES input, op, stack, ret, prev

vars == <<input, op, stack, ret, prev>>

-----------------------------------------------------------------------------
(* Characters *)

QUOTE == "\""

BSLASH == "\\"

WS == {" ", "\t", "\n", "\r"}

Digits == {"0", "1", "2", "3", "4", "5", "6", "7", "8", "9"}

DigitVal(c) ==
    CASE c = "0" -> 0 [] c = "1" -> 1 [] c = "2" -> 2 [] c = "3" -> 3
      [] c = "4" -> 4 [] c = "5" -> 5 [] c = "6" -> 6 [] c = "7" -> 7
      [] c = "8" -> 8 [] c = "9" -> 9

Chars(str) ==
    CASE str = "null" -> <<"n", "u", "l", "l">>
      [] str = "true" -> <<"t", "r", "u", "e">>
      [] str = "false" -> <<"f", "a", "l", "s", "e">>
      [] str = "inf" -> <<"i", "n", "f">>
      [] str = "infinity" -> <<"i", "n", "f", "i", "n", "i", "t", "y">>
      [] str = "nan" -> <<"n", "a", "n">>

Drop(s, n) == SubSeq(s, n + 1, Len(s))

Take(s, n) == SubSeq(s, 1, n)

IsPrefix(p, s) == Len(p) <= Len(s) /\ Take(s, Len(p)) = p

IsSuffix(t, s) == Len(t) <= Len(s) /\ Drop(s, Len(s) - Len(t)) = t

Min(S) == CHOOSE x \in S : \A y \in S : x <= y

\* The length of the longest prefix of s whose characters are all in set.
SpanLen(s, set) ==
    LET bad == {i \in 1..Len(s) : s[i] \notin set}
    IN  IF bad = {} THEN Len(s) ELSE Min(bad) - 1

-----------------------------------------------------------------------------
(* JsonValue *)

Null == [t |-> "Null"]

Bool(b) == [t |-> "Bool", b |-> b]

Num(f) == [t |-> "Num", f |-> f]

Str(s) == [t |-> "Str", s |-> s]

Array(vec) == [t |-> "Array", a |-> vec]

Object(map) == [t |-> "Object", o |-> map]

-----------------------------------------------------------------------------
(* IResult *)

Ok(rest, val) == [k |-> "Ok", rest |-> rest, val |-> val]

Err(at, code) == [k |-> "Err", at |-> at, code |-> code]

Panic(msg) == [k |-> "Panic", msg |-> msg]

Overflow == [k |-> "Overflow"]

IsOk(r) == r.k = "Ok"

IsErr(r) == r.k = "Err"

\* What a closure handed to map returns: a value, or an unwinding panic.
Ret(v) == [panic |-> FALSE, v |-> v]

Unwind(msg) == [panic |-> TRUE, msg |-> msg]

\* Option<T>
None == [some |-> FALSE]

Some(v) == [some |-> TRUE, v |-> v]

-----------------------------------------------------------------------------
(* nom: the parsers of bytes::complete and character::complete *)

\* A char that matches without consuming the character.
CharPeek(c, s) ==
    IF s # <<>> /\ Head(s) = c THEN Ok(s, c) ELSE Err(s, "Char")

\* char(c)
Char(c, s) ==
    IF s # <<>> /\ Head(s) = c THEN Ok(Tail(s), c) ELSE Err(s, "Char")

\* tag(t)
Tag(t, s) ==
    IF IsPrefix(t, s) THEN Ok(Drop(s, Len(t)), t) ELSE Err(s, "Tag")

\* multispace0: zero or more of space, tab, line feed, carriage return.
Multispace0(s) ==
    LET n == SpanLen(s, WS) IN Ok(Drop(s, n), Take(s, n))

\* digit1: one or more ASCII digits.
Digit1(s) ==
    LET n == SpanLen(s, Digits)
    IN  IF n = 0 THEN Err(s, "Digit") ELSE Ok(Drop(s, n), Take(s, n))

\* take_while(|c| c != stop)
TakeWhileNot(stop, s) ==
    LET n == SpanLen(s, {s[i] : i \in 1..Len(s)} \ {stop})
    IN  Ok(Drop(s, n), Take(s, n))

-----------------------------------------------------------------------------
(* nom: the combinators *)
(* A combinator is given the results of its parsers, each run on the text  *)
(* the one before it left; a result is looked at only when the combinator  *)
(* runs its parser.                                                        *)

\* map(p, f) with r the result of p and c what the closure returns on its
\* output: a panic of the closure unwinds through every caller.
Map(r, c) ==
    IF ~IsOk(r) THEN r
    ELSE IF c.panic THEN Panic(c.msg)
    ELSE [r EXCEPT !.val = c.v]

\* opt(p) on the text s: a recoverable error becomes None and consumes
\* nothing.
Opt(r, s) ==
    IF IsOk(r) THEN [r EXCEPT !.val = Some(@)]
    ELSE IF IsErr(r) THEN Ok(s, None)
    ELSE r

\* pair(p, q) with r2 the result of q on what p left.
Pair(r1, r2) ==
    IF ~IsOk(r1) THEN r1
    ELSE IF ~IsOk(r2) THEN r2
    ELSE Ok(r2.rest, <<r1.val, r2.val>>)

\* recognize(p) on the text s: the consumed slice of the input.
Recognize(r, s) ==
    IF IsOk(r) THEN [r EXCEPT !.val = Take(s, Len(s) - Len(r.rest))] ELSE r

\* preceded(p, q)
Preceded(r1, r2) ==
    LET r == Pair(r1, r2)
    IN  IF IsOk(r) THEN [r EXCEPT !.val = @[2]] ELSE r

\* terminated(p, q)
Terminated(r1, r2) ==
    LET r == Pair(r1, r2)
    IN  IF IsOk(r) THEN [r EXCEPT !.val = @[1]] ELSE r

\* delimited(p, q, r)
Delimited(r1, r2, r3) == Preceded(r1, Terminated(r2, r3))

\* alt((p, q)) with r2 the result of q on the same input: q is tried when p
\* fails recoverably, and the error of a failed choice is that of its last
\* alternative.
Alt2(r1, r2) == IF IsErr(r1) THEN r2 ELSE r1

-----------------------------------------------------------------------------
(* str::parse::<f64> *)

RECURSIVE DecValue(_)
DecValue(ds) ==
    IF ds = <<>> THEN 0
    ELSE 10 * DecValue(Take(ds, Len(ds) - 1)) + DigitVal(ds[Len(ds)])

\* <f64 as FromStr>::from_str: an optional sign, then inf, infinity, nan or
\* a decimal with at least one digit and an optional exponent.  The value is
\* kept as the literal's parts (exact below 2^53; 1.50 and 1.5 are kept
\* apart, forms parse_num never hands over).
F64FromStr(t) ==
    LET signed == t # <<>> /\ Head(t) \in {"+", "-"}
        neg    == t # <<>> /\ Head(t) = "-"
        body   == IF signed THEN Tail(t) ELSE t
        ni     == SpanLen(body, Digits)
        aInt   == Drop(body, ni)
        hasDot == aInt # <<>> /\ Head(aInt) = "."
        aDot   == IF hasDot THEN Tail(aInt) ELSE aInt
        nf     == IF hasDot THEN SpanLen(aDot, Digits) ELSE 0
        aFrac  == Drop(aDot, nf)
        hasExp == aFrac # <<>> /\ Head(aFrac) \in {"e", "E"}
        eTxt   == IF hasExp THEN Tail(aFrac) ELSE <<>>
        eNeg   == eTxt # <<>> /\ Head(eTxt) = "-"
        eDig   == IF eTxt # <<>> /\ Head(eTxt) \in {"+", "-"}
                  THEN Tail(eTxt) ELSE eTxt
        eOk    == IF hasExp
                  THEN eDig # <<>> /\ SpanLen(eDig, Digits) = Len(eDig)
                  ELSE aFrac = <<>>
        num(class, mag, frac, exp) ==
            [ok |-> TRUE,
             v |-> [class |-> class, neg |-> neg, mag |-> mag,
                    frac |-> frac, exp |-> exp]]
    IN  IF body \in {Chars("inf"), Chars("infinity")}
          THEN num("inf", 0, <<>>, 0)
        ELSE IF body = Chars("nan") THEN num("nan", 0, <<>>, 0)
        ELSE IF ni + nf > 0 /\ eOk
          THEN num("finite", DecValue(Take(body, ni)), Take(aDot, nf),
                   IF eNeg THEN 0 - DecValue(eDig) ELSE DecValue(eDig))
        ELSE [ok |-> FALSE]

-----------------------------------------------------------------------------
(* The parsers of main.rs that do not recurse *)

\* parse_null
ParseNull(s) == Map(Tag(Chars("null"), s), Ret(Null))

\* parse_bool
ParseBool(s) ==
    Alt2(Map(Tag(Chars("true"), s), Ret(Bool(TRUE))),
         Map(Tag(Chars("false"), s), Ret(Bool(FALSE))))

\* The closure of parse_num: JsonValue::Num(s.parse().unwrap())
NumUnwrap(t) ==
    LET f == F64FromStr(t)
    IN  IF f.ok THEN Ret(Num(f.v)) ELSE Unwind("unwrap on an Err value")

\* The number grammar of parse_num: recognize(pair(opt(char('-')), digit1))
NumLiteral(s) ==
    LET sign == Opt(Char("-", s), s)
    IN  Recognize(Pair(sign, Digit1(sign.rest)), s)

\* parse_num
ParseNum(s) ==
    LET r == NumLiteral(s) IN Map(r, NumUnwrap(r.val))

\* The string grammar of parse_str:
\* delimited(char('"'), take_while(|c| c != '"'), char('"'))
StrLiteral(s) ==
    LET open == Char(QUOTE, s)
        body == TakeWhileNot(QUOTE, open.rest)
    IN  Delimited(open, body, Char(QUOTE, body.rest))

\* The closure of parse_str: JsonValue::Str(s.to_string()), the slice as is.
StrOf(slice) == Ret(Str(slice))

\* parse_str
ParseStr(s) ==
    LET r == StrLiteral(s) IN Map(r, StrOf(r.val))

\* The four alternatives with a failed alternative keeping what it had read:
\* the next one starts where it failed.
ScalarAdvancing(s) ==
    LET str  == ParseStr(s)
        num  == ParseNum(str.at)
        bool == ParseBool(num.at)
    IN  Alt2(str, Alt2(num, Alt2(bool, ParseNull(bool.at))))

\* The first four alternatives of parse_value, in the order of the alt.
Scalar(s) ==
    Alt2(ParseStr(s), Alt2(ParseNum(s), Alt2(ParseBool(s), ParseNull(s))))

\* The separator of both lists: preceded(multispace0, char(','))
Comma(s) ==
    LET w == Multispace0(s) IN Preceded(w, Char(",", w.rest))

\* The key of parse_pair: preceded(multispace0, parse_str)
PairKey(s) ==
    LET w == Multispace0(s) IN Preceded(w, ParseStr(w.rest))

\* The separator of parse_pair: preceded(multispace0, char(':'))
Colon(s) ==
    LET w == Multispace0(s) IN Preceded(w, Char(":", w.rest))

\* An insertion that keeps the value of a key already present.
InsertIfAbsent(m, k, v) ==
    [x \in DOMAIN m \cup {k} |-> IF x \in DOMAIN m THEN m[x] ELSE v]

\* HashMap::insert
Insert(m, k, v) == [x \in DOMAIN m \cup {k} |-> IF x = k THEN v ELSE m[x]]

\* Iterator::collect into a HashMap: the pairs are inserted in order.
RECURSIVE Collect(_)
Collect(kvs) ==
    IF kvs = <<>> THEN <<>>
    ELSE LET n == Len(kvs)
         IN  Insert(Collect(Take(kvs, n - 1)), kvs[n].key, kvs[n].value)

\* The closure of parse_object: every key must be a JsonValue::Str.
ObjectOf(pairs) ==
    IF \E i \in 1..Len(pairs) : pairs[i].key.t # "Str"
    THEN Unwind("key must be a string")
    ELSE Ret(Object(Collect([i \in 1..Len(pairs) |->
                                 [key |-> pairs[i].key.s,
                                  value |-> pairs[i].value]])))

\* An end of parse_array that lets a separator stand before the bracket.
ArrayCloseAfterComma(i, vec) ==
    LET sep == Opt(Comma(i), i)
    IN  Map(Preceded(sep, Char("]", sep.rest)), Ret(Array(vec)))

\* The end of parse_array once the list stopped at i: char(']'), then the
\* closure JsonValue::Array(vec).
ArrayClose(i, vec) == Map(Char("]", i), Ret(Array(vec)))

\* The end of parse_object once the list stopped at i:
\* preceded(multispace0, char('}')), then the closure.
ObjectClose(i, pairs) ==
    LET w == Multispace0(i)
    IN  Map(Preceded(w, Char("}", w.rest)), ObjectOf(pairs))

\* The end of parse_json once parse_value returned r:
\* terminated(parse_value, multispace0)
JsonEnd(r) == Terminated(r, Multispace0(r.rest))

\* The end of parse_pair once parse_value returned r: the pair (key, value).
PairEnd(key, r) ==
    IF IsOk(r) THEN Ok(r.rest, [key |-> key, value |-> r.val]) ELSE r

-----------------------------------------------------------------------------
(* The call stack *)

\* The call stack holds this many frames.
StackFrames == 24

Idle == [k |-> "None"]

\* The frame of a call of fn on the text s: pc is the place the call has
\* reached, i the remainder it holds, acc the outputs collected so far and
\* key the key of a pair.
Frame(fn, s) ==
    [fn |-> fn, pc |-> "start", s |-> s, i |-> s, acc |-> <<>>, key |-> Null]

Top == stack[Len(stack)]

Running(fn) == stack # <<>> /\ Top.fn = fn

\* The running call returns r to its caller.
Return(r) ==
    /\ stack' = SubSeq(stack, 1, Len(stack) - 1)
    /\ ret' = r
    /\ UNCHANGED <<input, op, prev>>

\* The running call, its frame now f, calls fn on the text s; a call the
\* stack has no room for aborts the process.
Call(f, fn, s) ==
    /\ IF Len(stack) >= StackFrames
       THEN stack' = <<>> /\ ret' = Overflow
       ELSE /\ stack' = Append([stack EXCEPT ![Len(stack)] = f], Frame(fn, s))
            /\ ret' = Idle
    /\ UNCHANGED <<input, op, prev>>

\* The text an element parser preceded(multispace0, p) hands to p.
Skip(s) == Multispace0(s).rest

\* parse_json
StepJson ==
    /\ Running("parse_json")
    /\ IF Top.pc = "start"
       THEN Call([Top EXCEPT !.pc = "value"], "parse_value", Top.s)
       ELSE Return(JsonEnd(ret))

\* parse_value: after the whitespace the alternatives are tried in order on
\* the same text; parse_array and parse_object are calls.
StepValue ==
    /\ Running("parse_value")
    /\ LET x == Skip(Top.s)
           r == Scalar(x)
       IN  CASE Top.pc = "start" ->
                  IF IsErr(r)
                  THEN Call([Top EXCEPT !.pc = "array", !.i = x],
                            "parse_array", x)
                  ELSE Return(r)
             [] Top.pc = "array" ->
                  IF IsErr(ret)
                  THEN Call([Top EXCEPT !.pc = "object"],
                            "parse_object", Top.i)
                  ELSE Return(ret)
             [] Top.pc = "object" -> Return(ret)

\* The parser of one element of the list of frame f.
Element(f) == IF f.fn = "parse_array" THEN "parse_value" ELSE "parse_pair"

\* What follows the list of frame f once it stopped at i with the outputs acc.
Close(f, i, acc) ==
    IF f.fn = "parse_array" THEN ArrayClose(i, acc) ELSE ObjectClose(i, acc)

\* separated_list0 after an element: a separator that fails ends the list
\* at i, and after a separator the next element is parsed.
Loop(f, i, acc) ==
    LET c == Comma(i)
    IN  IF IsErr(c) THEN Return(Close(f, i, acc))
        ELSE Call([f EXCEPT !.pc = "more", !.i = i, !.acc = acc],
                  Element(f), Skip(c.rest))

\* delimited(char(open), separated_list0(...), close): a first element or an
\* element after a separator that fails recoverably ends the list where it
\* stood (i), an iteration that consumes nothing is nom's SeparatedList
\* error, and any other failure is returned as it is.
StepList(f, open) ==
    LET o == Char(open, f.s)
    IN  CASE f.pc = "start" ->
               IF IsOk(o)
               THEN Call([f EXCEPT !.pc = "first", !.i = o.rest],
                         Element(f), Skip(o.rest))
               ELSE Return(o)
          [] f.pc = "first" ->
               IF IsErr(ret) THEN Return(Close(f, f.i, <<>>))
               ELSE IF ~IsOk(ret) THEN Return(ret)
               ELSE Loop(f, ret.rest, <<ret.val>>)
          [] f.pc = "more" ->
               IF IsErr(ret) THEN Return(Close(f, f.i, f.acc))
               ELSE IF ~IsOk(ret) THEN Return(ret)
               ELSE IF Len(ret.rest) = Len(f.i)
                    THEN Return(Err(f.i, "SeparatedList"))
               ELSE Loop(f, ret.rest, Append(f.acc, ret.val))

\* parse_array
StepArray == Running("parse_array") /\ StepList(Top, "[")

\* parse_object
StepObject == Running("parse_object") /\ StepList(Top, "{")

\* parse_pair
StepPair ==
    /\ Running("parse_pair")
    /\ LET k == PairKey(Top.s)
           c == Colon(k.rest)
       IN  IF Top.pc = "start"
           THEN IF ~IsOk(k) THEN Return(k)
                ELSE IF ~IsOk(c) THEN Return(c)
                ELSE Call([Top EXCEPT !.pc = "value", !.key = k.val],
                          "parse_value", Skip(c.rest))
           ELSE Return(PairEnd(Top.key, ret))

-----------------------------------------------------------------------------
(* main: a text is handed to one parser *)

\* A call from main of a parser that runs on the stack.
Enter(fn) ==
    /\ op = "none"
    /\ op' = fn
    /\ stack' = <<Frame(fn, input)>>
    /\ UNCHANGED <<input, ret, prev>>

\* A call from main of a parser that does not recurse.
Apply(fn, r) ==
    /\ op = "none"
    /\ op' = fn
    /\ ret' = r
    /\ UNCHANGED <<input, stack, prev>>

CallParseNull == Apply("parse_null", ParseNull(input))

CallParseBool == Apply("parse_bool", ParseBool(input))

CallParseNum == Apply("parse_num", ParseNum(input))

CallParseStr == Apply("parse_str", ParseStr(input))

CallParseArray == Enter("parse_array")

CallParseObject == Enter("parse_object")

CallParseJson == Enter("parse_json")

\* The call has returned to main: ret is what main prints.
Done == op # "none" /\ stack = <<>>

\* The steps of the running call.
Step == StepJson \/ StepValue \/ StepArray \/ StepObject \/ StepPair

-----------------------------------------------------------------------------
(* The inputs *)

RECURSIVE Concat(_)
Concat(ts) == IF ts = <<>> THEN <<>> ELSE Head(ts) \o Concat(Tail(ts))

\* The texts made of at most n of the pieces.
Texts(pieces, n) ==
    {Concat(ts) : ts \in UNION {[1..k -> pieces] : k \in 0..n}}

NoPrev == [k |-> "None"]

Start(texts) ==
    /\ input \in texts
    /\ op = "none"
    /\ stack = <<>>
    /\ ret = Idle
    /\ prev = NoPrev

\* The key and the colon of a member.
KeyA == <<QUOTE, "a", QUOTE, ":">>

-----------------------------------------------------------------------------
(* Documents: arrays, objects, separators, whitespace and a number *)

MaxToks == 4

Pieces == {<<"[">>, <<"]">>, <<"{">>, <<"}">>, <<",">>, <<" ">>, <<"1">>, KeyA}

Init == Start(Texts(Pieces, MaxToks))

Next ==
    \/ CallParseNull
    \/ CallParseBool
    \/ CallParseNum
    \/ CallParseStr
    \/ CallParseArray
    \/ CallParseObject
    \/ CallParseJson
    \/ Step

Spec == Init /\ [][Next]_vars

\* The text the returned call consumed.
Consumed == Take(input, Len(input) - Len(ret.rest))

\* C1: the top-level entry point succeeds only when the whole input is
\* consumed: a success of parse_json never carries a non-empty remainder.
C1_WholeInputConsumed ==
    Done /\ op = "parse_json" /\ IsOk(ret) => ret.rest = <<>>

\* The frames of parse_value on the stack: the depth of the recursion.
ValueDepth ==
    Cardinality({j \in 1..Len(stack) : stack[j].fn = "parse_value"})

\* The maximum nesting depth a parser is to be configured with.
NestingLimit == 2

\* C7: the recursion depth of the parser never exceeds the configured
\* maximum nesting depth (deeper input is refused, not recursed into).
C7_DepthBounded == ValueDepth <= NestingLimit

-----------------------------------------------------------------------------
(* Members: keys, colons, signs and digits, whole or broken *)

MaxKeyToks == 5

KeyPieces == {<<"{">>, <<"}">>, <<QUOTE, "a", QUOTE>>, <<":">>, <<"-">>, <<"1">>}

InitKeys == Start(Texts(KeyPieces, MaxKeyToks))

SpecKeys == InitKeys /\ [][Next]_vars

\* Neither the panic "key must be a string" of parse_object nor the unwrap
\* of parse_num is reached: every key comes from parse_str and every text
\* converted is an optional '-' and digits.
PanicSitesUnreachable == ret.k # "Panic"

-----------------------------------------------------------------------------
(* Deep documents: opening brackets, more of them than the stack has room for *)

MaxDeepToks == 13

InitDeep == Start(Texts({<<"[">>}, MaxDeepToks))

NextDeep ==
    \/ CallParseJson
    \/ CallParseArray
    \/ StepJson
    \/ StepValue
    \/ StepArray
    \/ StepObject

SpecDeep == InitDeep /\ [][NextDeep]_vars

\* C2: no call ends in an abort: whatever the input, what a call returns is
\* a success or a failure, never a panic and never an exhausted stack.
C2_NeverAborts == ret.k \in {"None", "Ok", "Err"}

-----------------------------------------------------------------------------
(* Objects: whole members, some with the same key *)

MaxMemberToks == 5

Member(k, v) == <<QUOTE, k, QUOTE, ":", v>>

MemberPieces ==
    {<<"{">>, <<"}">>, <<",">>, Member("a", "1"), Member("a", "2"),
     Member("b", "1")}

InitMembers == Start(Texts(MemberPieces, MaxMemberToks))

SpecMembers == InitMembers /\ [][Next]_vars

\* The running call returns a success in this step.
ReturnsOk(fn) == Running(fn) /\ Len(stack') < Len(stack) /\ IsOk(ret')

\* The outputs of the list of the running parse_array or parse_object when
\* the list ends in this step: those collected, and the one just returned.
ListAtClose ==
    LET sofar == IF Top.pc = "more" THEN Top.acc ELSE <<>>
    IN  IF IsOk(ret) THEN Append(sofar, ret.val) ELSE sofar

\* The map o holds exactly the keys of the pairs, each with the value of
\* the last pair that has the key.
LastWriteWins(pairs, o) ==
    /\ DOMAIN o = {pairs[i].key.s : i \in 1..Len(pairs)}
    /\ \A i \in 1..Len(pairs) :
           (\A j \in (i + 1)..Len(pairs) : pairs[j].key # pairs[i].key)
               => o[pairs[i].key.s] = pairs[i].value

\* C3: the Object built from the members of an object text has exactly the
\* distinct keys of the members, and each key has the value of the last
\* member with that key in source order.
C3_LastWriteWins ==
    [][ReturnsOk("parse_object")
           => LastWriteWins(ListAtClose, ret'.val.o)]_vars

\* {"a":1,"a":2} is the object with the one key a, of value 2.
C3_Witness ==
    /\ Done /\ op = "parse_object" /\ IsOk(ret)
    /\ input = Concat(<<<<"{">>, Member("a", "1"), <<",">>,
                        Member("a", "2"), <<"}">>>>)
    /\ DOMAIN ret.val.o = {<<"a">>}
    /\ ret.val.o[<<"a">>].f.mag = 2

-----------------------------------------------------------------------------
(* Lists: an opening bracket or brace, then elements, members, separators *)

MaxListToks == 4

ListPieces ==
    {<<"[">>, <<"]">>, <<"}">>, <<",">>, <<" ">>, <<"1">>, <<"2">>}

\* An array text, or an object text with a first member.
InitLists ==
    Start({open \o t : open \in {<<"[">>, <<"{">> \o Member("a", "1")},
                       t \in Texts(ListPieces, MaxListToks)})

SpecLists == InitLists /\ [][Next]_vars

\* The character at i of s is outside every string literal.
OutsideString(s, i) ==
    Cardinality({j \in 1..(i - 1) : s[j] = QUOTE}) % 2 = 0

\* s has a separator outside the strings that is followed, after whitespace
\* at most, by a closing bracket or brace.
HasTrailingComma(s) ==
    \E i \in 1..Len(s) :
        /\ s[i] = "," /\ OutsideString(s, i)
        /\ LET after == Skip(Drop(s, i))
           IN  after # <<>> /\ Head(after) \in {"]", "}"}

\* s without its whitespace.
NoSpace(s) == SelectSeq(s, LAMBDA c : c \notin WS)

RECURSIVE DecString(_)
DecString(n) ==
    LET d == <<"0", "1", "2", "3", "4", "5", "6", "7", "8", "9">>[(n % 10) + 1]
    IN  IF n < 10 THEN <<d>> ELSE Append(DecString(n \div 10), d)

\* v is a number or an array of such values.
RECURSIVE Plain(_)
Plain(v) ==
    \/ v.t = "Num"
    \/ v.t = "Array" /\ \A i \in 1..Len(v.a) : Plain(v.a[i])

\* The text of a plain value: the elements in order, one separator between
\* two of them.
RECURSIVE Render(_)
Render(v) ==
    IF v.t = "Num" THEN DecString(v.f.mag)
    ELSE LET RECURSIVE Join(_)
             Join(k) ==
                 IF k = 0 THEN <<>>
                 ELSE IF k = 1 THEN Render(v.a[1])
                 ELSE Join(k - 1) \o <<",">> \o Render(v.a[k])
         IN  <<"[">> \o Join(Len(v.a)) \o <<"]">>

AcceptedList ==
    /\ Done /\ IsOk(ret)
    /\ op \in {"parse_array", "parse_object", "parse_json"}

\* C4: a trailing comma is rejected: no text accepted by parse_array,
\* parse_object or parse_json has, in the part consumed, a separator
\* followed directly (or after whitespace) by `]` or `}`; an accepted array
\* holds one element per parsed value, in the order parsed, and an accepted
\* array of numbers and arrays is, whitespace apart, the text consumed.
C4_TrailingCommaRejected ==
    /\ [](AcceptedList => ~HasTrailingComma(Consumed))
    /\ [](AcceptedList /\ Plain(ret.val) => Render(ret.val) = NoSpace(Consumed))
    /\ [][ReturnsOk("parse_array") => ret'.val.a = ListAtClose]_vars

\* An array text with a separator right before its `]` has been refused.
C4_Witness ==
    /\ Done /\ op = "parse_json" /\ IsErr(ret)
    /\ input = <<"[", "1", ",", "]">>
    /\ HasTrailingComma(input)

-----------------------------------------------------------------------------
(* Scalars: quotes, backslashes, letters, signs, digits, points, exponents *)

MaxScalarToks == 4

ScalarPieces ==
    {<<QUOTE>>, <<BSLASH>>, <<"n">>, <<"a">>, <<"-">>, <<"1">>, <<".">>,
     <<"e">>}

InitScalars == Start(Texts(ScalarPieces, MaxScalarToks))

NextScalars ==
    \/ CallParseNull
    \/ CallParseBool
    \/ CallParseNum
    \/ CallParseStr

SpecScalars == InitScalars /\ [][NextScalars]_vars

\* The character a backslash escape stands for (\uXXXX apart), or "" when
\* the escape is not one of JSON.
Unescaped(e) ==
    CASE e = QUOTE -> QUOTE
      [] e = BSLASH -> BSLASH
      [] e = "/" -> "/"
      [] e = "b" -> "BS"
      [] e = "f" -> "\f"
      [] e = "n" -> "\n"
      [] e = "r" -> "\r"
      [] e = "t" -> "\t"
      [] OTHER -> ""

\* The string production with escapes resolved: Scan(p, out) reads the
\* literal from its character p on, out being the characters decoded.
EscapedStr(s) ==
    LET RECURSIVE Scan(_, _)
        Scan(p, out) ==
            IF p > Len(s) THEN Err(<<>>, "UnterminatedString")
            ELSE IF s[p] = QUOTE THEN Ok(Drop(s, p), Str(out))
            ELSE IF s[p] # BSLASH THEN Scan(p + 1, Append(out, s[p]))
            ELSE IF p = Len(s) THEN Err(<<>>, "UnterminatedString")
            ELSE IF Unescaped(s[p + 1]) = ""
                 THEN Err(Drop(s, p - 1), "InvalidEscape")
            ELSE Scan(p + 2, Append(out, Unescaped(s[p + 1])))
    IN  IF s = <<>> \/ Head(s) # QUOTE THEN Err(s, "UnexpectedToken")
        ELSE Scan(2, <<>>)

\* C5: parse_str resolves the backslash escapes: it returns the decoded
\* characters, an escaped quote does not end the string, and a backslash
\* before a character that is no escape makes it fail.
C5_EscapesResolved ==
    Done /\ op = "parse_str" =>
        LET want == EscapedStr(input)
        IN  IF IsOk(want) THEN ret = want ELSE ~IsOk(ret)

\* The length of the longest prefix of s that is a JSON number: an optional
\* sign, digits, an optional fraction and an optional exponent; 0 if none.
JsonNumberLen(s) ==
    LET sign == IF s # <<>> /\ Head(s) = "-" THEN 1 ELSE 0
        ni   == SpanLen(Drop(s, sign), Digits)
        aInt == Drop(s, sign + ni)
        nf   == IF aInt # <<>> /\ Head(aInt) = "."
                THEN SpanLen(Tail(aInt), Digits) ELSE 0
        frac == IF nf > 0 THEN 1 + nf ELSE 0
        aFr  == Drop(aInt, frac)
        es   == IF Len(aFr) > 1 /\ aFr[2] \in {"+", "-"} THEN 1 ELSE 0
        ne   == IF aFr # <<>> /\ Head(aFr) \in {"e", "E"}
                THEN SpanLen(Drop(aFr, 1 + es), Digits) ELSE 0
        exp  == IF ne > 0 THEN 1 + es + ne ELSE 0
    IN  IF ni = 0 THEN 0 ELSE sign + ni + frac + exp

\* C6: parse_num consumes the whole JSON number literal, fraction and
\* exponent included, and fails on a sign that no digit follows.
C6_FullNumberForm ==
    Done /\ op = "parse_num" =>
        LET n == JsonNumberLen(input)
        IN  IF n > 0 THEN IsOk(ret) /\ ret.rest = Drop(input, n)
            ELSE ~IsOk(ret)

-----------------------------------------------------------------------------
(* Documents parsed, then parsed again with whitespace added *)

MaxPlainToks == 4

PlainPieces ==
    {<<"[">>, <<"]">>, <<"{">>, <<"}">>, <<",">>, <<"1">>, Member("a", "1")}

InitSpaces == Start(Texts(PlainPieces, MaxPlainToks))

Structural == {"[", "]", "{", "}", ",", ":"}

\* A character may be added after the first p characters of s without
\* splitting a token: not inside a string, and not between two characters
\* of one number or keyword.
Boundary(s, p) ==
    /\ OutsideString(s, p + 1)
    /\ IF p = 0 \/ p = Len(s) THEN TRUE
       ELSE {s[p], s[p + 1]} \cap (Structural \cup {QUOTE}) # {}

\* The document main had parsed is handed over again with one whitespace
\* character added between two of its tokens.
Reformat ==
    /\ Done /\ op = "parse_json" /\ prev = NoPrev
    /\ IsOk(ret) /\ ret.rest = <<>>
    /\ \E p \in 0..Len(input), w \in WS :
           /\ Boundary(input, p)
           /\ input' = Take(input, p) \o <<w>> \o Drop(input, p)
    /\ prev' = [k |-> "Parsed", val |-> ret.val]
    /\ op' = "none"
    /\ ret' = Idle
    /\ UNCHANGED stack

NextSpaces == CallParseJson \/ Step \/ Reformat

SpecSpaces == InitSpaces /\ [][NextSpaces]_vars

\* C8: whitespace between two tokens never changes the result: a document
\* that was accepted is, with whitespace added, accepted with the same value.
C8_WhitespaceInsignificant ==
    Done /\ op = "parse_json" /\ prev # NoPrev =>
        IsOk(ret) /\ ret.rest = <<>> /\ ret.val = prev.val

-----------------------------------------------------------------------------
(* Values: the first characters of all six productions, whole or broken *)

MaxValueToks == 3

ValuePieces ==
    {<<QUOTE>>, <<"1">>, <<"-">>, Chars("true"), Chars("false"),
     Chars("null"), <<"t">>, <<"[">>, <<"]">>, <<"{">>, <<"}">>, <<" ">>,
     <<",">>}

InitValues == Start(Texts(ValuePieces, MaxValueToks))

SpecValues == InitValues /\ [][Next]_vars

\* The production the first character of x selects.
Selected(x) ==
    IF x = <<>> THEN "none"
    ELSE CASE Head(x) = QUOTE -> "string"
           [] Head(x) \in Digits \cup {"-"} -> "number"
           [] Head(x) \in {"t", "f"} -> "bool"
           [] Head(x) = "n" -> "null"
           [] Head(x) = "[" -> "array"
           [] Head(x) = "{" -> "object"
           [] OTHER -> "none"

\* The four productions that are not calls, by name.
Production(name, x) ==
    CASE name = "string" -> ParseStr(x)
      [] name = "number" -> ParseNum(x)
      [] name = "bool" -> ParseBool(x)
      [] name = "null" -> ParseNull(x)

Scalars == {"string", "number", "bool", "null"}

\* r is the result want: the same value and remainder, or a failure where
\* want is a failure (the error of a failed choice is that of its last
\* alternative, whichever production the first character selects).
SameResult(r, want) == IF IsErr(want) THEN IsErr(r) ELSE r = want

\* The running call returns to its caller in this step.
Returns(fn) ==
    /\ Running(fn)
    /\ stack' = SubSeq(stack, 1, Len(stack) - 1)

\* The running call calls another parser in this step.
Calls(fn) ==
    /\ Running(fn)
    /\ Len(stack') = Len(stack) + 1

\* What parse_value returns is the result of the production selected alone:
\* of parse_array and parse_object it is the result ret of the call, which
\* is made only after every earlier alternative has failed.
DispatchedByFirstChar ==
    LET x   == Skip(Top.s)
        sel == Selected(x)
    IN  CASE sel \in Scalars -> SameResult(ret', Production(sel, x))
          [] sel = "array" ->
               /\ Top.pc \in {"array", "object"}
               /\ IF Top.pc = "array" THEN ret' = ret ELSE IsErr(ret')
          [] sel = "object" -> Top.pc = "object" /\ ret' = ret
          [] OTHER -> IsErr(ret')

-----------------------------------------------------------------------------
(* Termination *)

MaxNestToks == 5

NestPieces == {<<"[">>, <<"]">>, <<",">>, <<"1">>, <<"{">> \o KeyA}

InitNest == Start(Texts(NestPieces, MaxNestToks))

\* A step can be taken: main has a call to make, or a call is running at
\* one of the places of its parser.
CanStep ==
    \/ op = "none"
    \/ /\ stack # <<>>
       /\ \/ Top.fn = "parse_json" /\ Top.pc \in {"start", "value"}
          \/ Top.fn = "parse_value" /\ Top.pc \in {"start", "array", "object"}
          \/ Top.fn \in {"parse_array", "parse_object"}
             /\ Top.pc \in {"start", "first", "more"}
          \/ Top.fn = "parse_pair" /\ Top.pc \in {"start", "value"}

\* Weak fairness of Next, WF_vars(Next), that is
\* []<>~ENABLED <<Next>>_vars \/ []<><<Next>>_vars, with the states in which
\* no step of Next is enabled written out: main runs a call it has made to
\* its return and nothing stops it before.
FairNext == []<>(~CanStep) \/ []<><<Next>>_vars

SpecFair == InitNest /\ [][Next]_vars /\ FairNext

Lists == {"parse_array", "parse_object"}

\* C10: every call terminates: a call made by parse_array, parse_object or
\* parse_pair is made on a text strictly shorter than the caller's, an
\* element of a list leaves the list strictly less than it had before, the
\* remainder returned on success is a suffix of the text passed in, and
\* every call main makes returns.
C10_Terminates ==
    /\ [](\A j \in 2..Len(stack) :
              IF stack[j - 1].fn \in Lists \cup {"parse_pair"}
              THEN Len(stack[j].s) < Len(stack[j - 1].s)
              ELSE Len(stack[j].s) <= Len(stack[j - 1].s))
    /\ [](stack # <<>> /\ Top.fn \in Lists /\ Top.pc \in {"first", "more"}
          /\ IsOk(ret) => Len(ret.rest) < Len(Top.i))
    /\ [][stack # <<>> /\ stack' = SubSeq(stack, 1, Len(stack) - 1)
          /\ IsOk(ret') => IsSuffix(ret'.rest, Top.s)]_vars
    /\ [](Done /\ IsOk(ret) => IsSuffix(ret.rest, input))
    /\ [](CanStep \/ Done)
    /\ <>Done

C10_Witness ==
    /\ Done /\ op = "parse_json"
    /\ input = <<"[", "1", ",", "1", "]">>
    /\ IsOk(ret) /\ ret.rest = <<>>

=============================================================================
